---- MODULE Spec2Model ----
(***************************************************************************)
(* rustfoil: one run of real_main (src/src/main.rs) as a state machine.    *)
(* A run constructs the service, validates the input, scans the given      *)
(* Google Drive folders, filters the files, builds the index, writes it to *)
(* the output path, and optionally shares the files and uploads the index. *)
(*                                                                         *)
(* Strings the program inspects character by character (file names, size   *)
(* fields) are sequences of one-character strings.  Option<T> is a         *)
(* sequence of length 0 (None) or 1 (Some).                                *)
(*                                                                         *)
(* GDriveService and convert_to_tinfoil_format are called, not defined, in *)
(* main.rs: the model records the calls made to them and draws their       *)
(* results (a listing or a failure, an upload result, a conversion error). *)
(* The flags no_recursion, compression, token and verbose are passed on to *)
(* them or to the logger and do not change what real_main does.            *)
(***************************************************************************)
EXTENDS Integers, Sequences, FiniteSets, TLC

\* ------------------------------------------------------------------ bounds

\* Largest number of folder ids on the command line.
MaxFolders == 2

\* ----------------------------------------------------------------- options

None == <<>>

Some(v) == <<v>>

IsSome(o) == Len(o) > 0

Unwrap(o) == o[1]

\* ----------------------------------------------------------------- strings

Digits == {"0", "1", "2", "3", "4", "5", "6", "7", "8", "9"}

UpperLetters == {"A", "B", "C", "D", "E", "F", "G", "N", "P", "S", "X", "Z", "I"}

LowerLetters == {"a", "b", "c", "d", "e", "f", "g", "n", "p", "s", "x", "z", "i", "t"}

\* The ASCII alphanumerics (those that occur in the names of the remote store):
\* what NON_ALPHANUMERIC leaves unescaped.
AsciiAlphanumeric == Digits \cup UpperLetters \cup LowerLetters

\* [0-9A-Fa-f]
HexDigits == Digits \cup {"A", "B", "C", "D", "E", "F"} \cup {"a", "b", "c", "d", "e", "f"}

\* Number of bytes of a character in UTF-8 (String::len counts bytes).
Utf8Len(c) == IF c = "é" THEN 2 ELSE 1

RECURSIVE ByteLen(_)
ByteLen(s) == IF s = <<>> THEN 0 ELSE Utf8Len(Head(s)) + ByteLen(Tail(s))

\* utf8_percent_encode of one character: every byte that is not an ASCII
\* alphanumeric becomes %XX.
EncodeChar(c) ==
  CASE c \in AsciiAlphanumeric -> <<c>>
    [] c = "[" -> <<"%", "5", "B">>
    [] c = "]" -> <<"%", "5", "D">>
    [] c = "." -> <<"%", "2", "E">>
    [] c = "é" -> <<"%", "C", "3", "%", "A", "9">>

RECURSIVE PercentEncode(_)
PercentEncode(s) ==
  IF s = <<>> THEN <<>> ELSE EncodeChar(Head(s)) \o PercentEncode(Tail(s))

\* Iterator::skip(n) then collect, on the characters of s.
Skip(s, n) == IF n >= Len(s) THEN <<>> ELSE SubSeq(s, n + 1, Len(s))

\* Iterator::take(n) then collect.
Take(s, n) == IF n >= Len(s) THEN s ELSE SubSeq(s, 1, n)

\* usize arithmetic wraps modulo 2^64 when overflow checks are off.  The
\* wrapped value is only ever used as a skip count, so any modulus above the
\* longest name gives the same result; 2^30 keeps it inside TLC's integers.
UsizeModulus == 2^30

\* --------------------------------------------------------------- file filter

\* vec![".nsp", ".nsz", ".xci", ".xcz"]
NswExtensions ==
  { <<".", "n", "s", "p">>, <<".", "n", "s", "z">>,
    <<".", "x", "c", "i">>, <<".", "x", "c", "z">> }

\* file.name.len() - 4 underflows for names shorter than four bytes.
SubtractOverflows(name) == ByteLen(name) < 4

\* file.name.chars().skip(file.name.len() - 4).take(4).collect()
Extension(name) == Take(Skip(name, (ByteLen(name) - 4) % UsizeModulus), 4)

HasNswExtension(name) == Extension(name) \in NswExtensions

\* Regex "%5B[0-9A-Fa-f]{16}%5D", unanchored, on the encoded name.
MatchesAt(enc, i) ==
  /\ i + 21 <= Len(enc)
  /\ SubSeq(enc, i, i + 2) = <<"%", "5", "B">>
  /\ \A j \in 3..18 : enc[i + j] \in HexDigits
  /\ SubSeq(enc, i + 19, i + 21) = <<"%", "5", "D">>

ReIsMatch(enc) == \E i \in 1..Len(enc) : MatchesAt(enc, i)

\* ParsedFileInfo::new
ParsedFileInfoNew(info) ==
  [ id |-> info.id, size |-> info.size, name |-> info.name,
    name_encoded |-> PercentEncode(info.name), shared |-> info.shared ]

\* The closure given to filter() in scan_folder: the second test assigns keep,
\* it does not combine with the first.
KeepFile(file, add_non_nsw_files, add_nsw_files_without_title_id) ==
  LET keep1 == IF ~add_non_nsw_files THEN HasNswExtension(file.name) ELSE TRUE
  IN  IF ~add_nsw_files_without_title_id
        THEN ReIsMatch(file.name_encoded)
        ELSE keep1

\* ------------------------------------------------------------- remote store

\* "[0123456789AbCdEF]": a bracketed 16-hex-digit title id.
TitleId ==
  <<"[", "0", "1", "2", "3", "4", "5", "6", "7", "8", "9",
    "A", "b", "C", "d", "E", "F", "]">>

\* gdrive::FileInfo values held by the remote store: id, name, size (decimal
\* text) and shared.
FileInfo(id, name, size, shared) ==
  [ id |-> id, name |-> name, size |-> size, shared |-> shared ]

\* What get_all_files_in_folder returns for each folder id when it succeeds.
RemoteListing(folder) ==
  CASE folder = "A" ->
         << FileInfo("a1", <<"G">> \o TitleId \o <<".", "n", "s", "p">>,
                     <<"1", "0", "0">>, FALSE),
            FileInfo("a2", <<"G">> \o TitleId \o <<".", "t", "x", "t">>,
                     <<"7">>, TRUE),
            FileInfo("a3", <<"G">> \o TitleId \o <<".", "x", "c", "i">>,
                     <<"0", "0", "4", "2">>, FALSE) >>
    [] folder = "B" ->
         << FileInfo("b1", <<"a">>, <<"1">>, FALSE),
            FileInfo("b2", <<"G">> \o TitleId \o <<".", "N", "S", "P">>,
                     <<"+", "2", "5">>, FALSE),
            FileInfo("b3", <<>>, <<"3">>, TRUE),
            FileInfo("b4", <<"G", ".", "X", "c", "i">>, <<"9">>, FALSE) >>
    [] folder = "C" ->
         << FileInfo("c1", <<"G", ".", "n", "s", "p">>,
                     <<"1", "2", "x">>, FALSE),
            FileInfo("c2", <<"é">> \o TitleId \o <<".", "n", "s", "z">>,
                     <<"1", "8", "4", "4", "6", "7", "4", "4", "0", "7",
                       "3", "7", "0", "9", "5", "5", "1", "6", "1", "6">>,
                     TRUE) >>

FolderIds == {"A", "B", "C"}

RECURSIVE SeqsUpTo(_, _)
SeqsUpTo(S, n) ==
  IF n = 0 THEN {<<>>}
  ELSE LET shorter == SeqsUpTo(S, n - 1)
       IN  shorter \cup {Append(q, x) : q \in shorter, x \in S}

\* ------------------------------------------------------------ size parsing

DigitVal(c) ==
  CASE c = "0" -> 0 [] c = "1" -> 1 [] c = "2" -> 2 [] c = "3" -> 3
    [] c = "4" -> 4 [] c = "5" -> 5 [] c = "6" -> 6 [] c = "7" -> 7
    [] c = "8" -> 8 [] c = "9" -> 9

\* u64::MAX = 18446744073709551615, as digits.
U64MaxDigits ==
  <<"1", "8", "4", "4", "6", "7", "4", "4", "0", "7",
    "3", "7", "0", "9", "5", "5", "1", "6", "1", "5">>

RECURSIVE StripLeadingZeros(_)
StripLeadingZeros(d) ==
  IF Len(d) > 1 /\ Head(d) = "0" THEN StripLeadingZeros(Tail(d)) ELSE d

\* a <= b for digit strings of equal length.
RECURSIVE DigitsLeq(_, _)
DigitsLeq(a, b) ==
  IF a = <<>> THEN TRUE
  ELSE IF DigitVal(Head(a)) # DigitVal(Head(b))
         THEN DigitVal(Head(a)) < DigitVal(Head(b))
         ELSE DigitsLeq(Tail(a), Tail(b))

FitsU64(d) ==
  \/ Len(d) < Len(U64MaxDigits)
  \/ Len(d) = Len(U64MaxDigits) /\ DigitsLeq(d, U64MaxDigits)

\* u64::from_str_radix(size, 10): an optional leading "+", then one or more
\* decimal digits, the value at most u64::MAX.  The value is kept as its
\* canonical digit string.
ParseU64(size) ==
  LET body == IF size # <<>> /\ Head(size) = "+" THEN Tail(size) ELSE size
  IN  IF body = <<>> \/ \E i \in 1..Len(body) : body[i] \notin Digits
        THEN [ok |-> FALSE, val |-> <<>>]
        ELSE LET d == StripLeadingZeros(body)
             IN  IF FitsU64(d) THEN [ok |-> TRUE, val |-> d]
                               ELSE [ok |-> FALSE, val |-> <<>>]

\* ----------------------------------------------------------------- index

\* The fields of struct Index, in declaration order.
IndexFields ==
  << "files", "directories", "success", "referrer", "google_api_key",
     "one_fichier_keys", "headers", "version", "client_cert_pub",
     "client_cert_key", "theme_blacklist", "theme_whitelist", "theme_error" >>

\* Index::new
IndexNew ==
  [ files |-> None, directories |-> None, success |-> None, referrer |-> None,
    google_api_key |-> None, one_fichier_keys |-> None, headers |-> None,
    version |-> None, client_cert_pub |-> None, client_cert_key |-> None,
    theme_blacklist |-> None, theme_whitelist |-> None, theme_error |-> None ]

\* FileEntry::new
FileEntryNew(url, size) == [url |-> url, size |-> size]

\* format!("gdrive:{}#{}", info.id, info.name_encoded)
Locator(info) == <<"gdrive:", info.id, "#">> \o info.name_encoded

\* The loop of generate_index: one FileEntry per file, in order.
RECURSIVE IndexFiles(_)
IndexFiles(files) ==
  IF files = <<>> THEN <<>>
  ELSE <<FileEntryNew(Locator(Head(files)), ParseU64(Head(files).size).val)>>
         \o IndexFiles(Tail(files))

\* Whether some size fails to parse (the ? in the loop returns the error).
SizeParseFails(files) == \E i \in 1..Len(files) : ~ParseU64(files[i].size).ok

\* The body of generate_index after the loop: every configured option is
\* copied into its field.
BuildIndex(files, inp) ==
  [ IndexNew EXCEPT
      !.files = Some(IndexFiles(files)),
      !.success = IF IsSome(inp.success) THEN Some(Unwrap(inp.success)) ELSE @,
      !.referrer = IF IsSome(inp.referrer) THEN Some(Unwrap(inp.referrer)) ELSE @,
      !.google_api_key =
         IF IsSome(inp.google_api_key) THEN Some(Unwrap(inp.google_api_key)) ELSE @,
      !.one_fichier_keys =
         IF IsSome(inp.one_fichier_keys) THEN Some(Unwrap(inp.one_fichier_keys)) ELSE @,
      !.headers = IF IsSome(inp.headers) THEN Some(Unwrap(inp.headers)) ELSE @,
      !.version = IF IsSome(inp.min_version) THEN Some(Unwrap(inp.min_version)) ELSE @,
      !.theme_blacklist =
         IF IsSome(inp.theme_blacklist) THEN Some(Unwrap(inp.theme_blacklist)) ELSE @,
      !.theme_whitelist =
         IF IsSome(inp.theme_whitelist) THEN Some(Unwrap(inp.theme_whitelist)) ELSE @,
      !.theme_error =
         IF IsSome(inp.theme_error) THEN Some(Unwrap(inp.theme_error)) ELSE @ ]

\* The key a field is serialized under.  The serde attributes on Index are
\* rename(deserialize = "..."): they rename for deserialization only, so
\* serialization keeps the Rust field name.
SerializeName(field) == field

\* The key a field is deserialized from.
DeserializeName(field) ==
  CASE field = "google_api_key" -> "googleApiKey"
    [] field = "one_fichier_keys" -> "oneFichierKeys"
    [] field = "client_cert_pub" -> "clientCertPub"
    [] field = "client_cert_key" -> "clientCertKey"
    [] field = "theme_blacklist" -> "themeBlackList"
    [] field = "theme_whitelist" -> "themeWhiteList"
    [] field = "theme_error" -> "themeError"
    [] OTHER -> field

\* serde_json::to_string(&index) under #[skip_serializing_none]: the JSON
\* object, a function from the keys present to their values.
Serialize(index) ==
  LET present == {i \in 1..Len(IndexFields) : IsSome(index[IndexFields[i]])}
      keys == {SerializeName(IndexFields[i]) : i \in present}
      FieldOf(k) == IndexFields[CHOOSE i \in present : SerializeName(IndexFields[i]) = k]
  IN  [k \in keys |-> Unwrap(index[FieldOf(k)])]

\* ------------------------------------------------------------- container

\* EncryptionFlag chosen in output_index.
EncryptionFlag(inp) == IF IsSome(inp.public_key) THEN "Encrypt" ELSE "NoEncrypt"

\* One block of the container file, tagged with the document it carries.
Block(part, json) == [part |-> part, doc |-> json]

\* convert_to_tinfoil_format: header, then the wrapped key when encrypting,
\* then the payload; an error when the public key cannot be loaded.
ConvertToTinfoilFormat(json, encryption, public_key) ==
  IF encryption = "Encrypt" /\ Unwrap(public_key) = "truncated.pem"
    THEN [ok |-> FALSE, bytes |-> <<>>]
    ELSE [ok |-> TRUE,
          bytes |-> <<Block("header", json)>>
                    \o (IF encryption = "Encrypt"
                          THEN <<Block("wrapped_key", json)>> ELSE <<>>)
                    \o <<Block("payload", json)>>]

\* A container left at the output path by an earlier run.
OldContainer ==
  LET old == [files |-> <<>>, success |-> "previous run"]
  IN  <<Block("header", old), Block("payload", old)>>

\* ---------------------------------------------------------------- the run

VARIABLES
  pc,               \* position of real_main
  input,            \* struct Input, and whether the credentials file exists
  overflow_checks,  \* whether the build checks integer overflow
  calls,            \* calls made to GDriveService and to the file system, in order
  folder_idx,       \* position of the folder_ids iterator in scan_folder
  listing,          \* Option: the listing being filtered
  files,            \* files collected by scan_folder so far
  index,            \* Option: the Index returned by generate_index
  pending,          \* bytes handed to std::fs::write
  prior,            \* Option: content of the output path before the run
  disk,             \* Option: content of the output path now
  failure           \* why the run stopped early ("" when it has not)

vars ==
  << pc, input, overflow_checks, calls, folder_idx, listing, files, index,
     pending, prior, disk, failure >>

\* Values of the optional metadata flags.
NoMeta ==
  [ success |-> None, referrer |-> None, google_api_key |-> None,
    one_fichier_keys |-> None, headers |-> None, min_version |-> None,
    theme_blacklist |-> None, theme_whitelist |-> None, theme_error |-> None ]

FullMeta ==
  [ success |-> Some("hello"), referrer |-> Some("ref"),
    google_api_key |-> Some("key"), one_fichier_keys |-> Some(<<"k1", "k2">>),
    headers |-> Some(<<"h: 1">>), min_version |-> Some("7.0"),
    theme_blacklist |-> Some(<<"bb">>), theme_whitelist |-> Some(<<"ww">>),
    theme_error |-> Some("bad theme") ]

\* Every combination of set and unset metadata flags.
AllMeta ==
  { [f \in DOMAIN NoMeta |-> IF f \in set THEN FullMeta[f] ELSE None] :
      set \in SUBSET (DOMAIN NoMeta) }

\* struct Input (Input::from_args), with the metadata flags given.
Inputs(metas, folder_seqs) ==
  { [ folder_ids |-> ids, credentials_exists |-> cred, share_files |-> sf,
      add_nsw_files_without_title_id |-> noid, add_non_nsw_files |-> nonnsw,
      success |-> m.success, referrer |-> m.referrer,
      google_api_key |-> m.google_api_key,
      one_fichier_keys |-> m.one_fichier_keys, headers |-> m.headers,
      min_version |-> m.min_version, theme_blacklist |-> m.theme_blacklist,
      theme_whitelist |-> m.theme_whitelist, theme_error |-> m.theme_error,
      public_key |-> pk, share_index |-> si, upload_folder_id |-> uf,
      upload_my_drive |-> um ] :
      ids \in folder_seqs, cred \in BOOLEAN, sf \in BOOLEAN, noid \in BOOLEAN,
      nonnsw \in BOOLEAN, m \in metas,
      pk \in {None, Some("public.pem"), Some("truncated.pem")},
      si \in BOOLEAN, uf \in {None, Some("U")}, um \in BOOLEAN }

Init ==
  /\ pc = "start"
  /\ input \in Inputs({NoMeta, FullMeta}, SeqsUpTo(FolderIds, MaxFolders))
  /\ overflow_checks \in BOOLEAN
  /\ calls = <<>>
  /\ folder_idx = 1
  /\ listing = None
  /\ files = <<>>
  /\ index = None
  /\ pending = <<>>
  /\ prior \in {None, Some(OldContainer)}
  /\ disk = prior
  /\ failure = ""

\* The process ends: Err from real_main (exit 1) or a panic.
Stop(how, why) == pc' = how /\ failure' = why

\* RustfoilService::new: GDriveService::new is built from the credentials
\* and token paths, before anything is validated; it may panic when the
\* credentials file is missing.
New ==
  /\ pc = "start"
  /\ calls' = Append(calls, <<"gdrive_new">>)
  /\ \/ pc' = "validate" /\ failure' = failure
     \/ ~input.credentials_exists /\ Stop("panicked", "GDriveNew")
  /\ UNCHANGED << input, overflow_checks, folder_idx, listing, files, index,
                  pending, prior, disk >>

\* validate_input
ValidateInput ==
  /\ pc = "validate"
  /\ IF ~input.credentials_exists
       THEN Stop("exit1", "CredentialsMissing")
       ELSE pc' = "scan" /\ failure' = failure
  /\ UNCHANGED << input, overflow_checks, calls, folder_idx, listing, files,
                  index, pending, prior, disk >>

\* Where scan_folder goes once the folder at position i is next.
AfterFolder(i) == IF i > Len(input.folder_ids) THEN "generate" ELSE "list"

\* scan_folder up to the iterator chain: trigger_auth.
TriggerAuth ==
  /\ pc = "scan"
  /\ calls' = Append(calls, <<"trigger_auth">>)
  /\ folder_idx' = 1
  /\ pc' = AfterFolder(1)
  /\ UNCHANGED << input, overflow_checks, listing, files, index, pending,
                  prior, disk, failure >>

\* As GetAllFilesInFolder, with authentication triggered again for each
\* folder.
GetAllFilesInFolderAuthEach ==
  /\ pc = "list"
  /\ calls' = calls \o << <<"trigger_auth">>,
                         <<"list", input.folder_ids[folder_idx]>> >>
  /\ \/ /\ listing' = Some(RemoteListing(input.folder_ids[folder_idx]))
        /\ pc' = "filter"
        /\ failure' = failure
     \/ /\ Stop("panicked", "ListingFailed")
        /\ listing' = listing
  /\ UNCHANGED << input, overflow_checks, folder_idx, files, index, pending,
                  prior, disk >>

\* get_all_files_in_folder(id).unwrap() for the next folder id.
GetAllFilesInFolder ==
  /\ pc = "list"
  /\ calls' = Append(calls, <<"list", input.folder_ids[folder_idx]>>)
  /\ \/ /\ listing' = Some(RemoteListing(input.folder_ids[folder_idx]))
        /\ pc' = "filter"
        /\ failure' = failure
     \/ /\ Stop("panicked", "ListingFailed")
        /\ listing' = listing
  /\ UNCHANGED << input, overflow_checks, folder_idx, files, index, pending,
                  prior, disk >>

\* map(ParsedFileInfo::new) over a listing.
RECURSIVE ParseAll(_)
ParseAll(infos) ==
  IF infos = <<>> THEN <<>>
  ELSE <<ParsedFileInfoNew(Head(infos))>> \o ParseAll(Tail(infos))

\* .filter(...).collect() over the parsed listing.
FilterListing(parsed, inp) ==
  LET Keep(f) == KeepFile(f, inp.add_non_nsw_files, inp.add_nsw_files_without_title_id)
  IN  SelectSeq(parsed, Keep)

\* As Collect, with the files of a folder put in front.
CollectInFront(sofar, kept) == kept \o sofar

\* The files of a folder join the result after those of the folders before.
Collect(sofar, kept) == sofar \o kept

\* The closure of the outer map for one folder, and flatten: the listing is
\* parsed, filtered and collected.  With overflow checks the subtraction in
\* the extension test panics on a name shorter than four bytes.
FilterFolder ==
  /\ pc = "filter"
  /\ LET parsed == ParseAll(Unwrap(listing))
     IN  IF /\ ~input.add_non_nsw_files
            /\ overflow_checks
            /\ \E i \in 1..Len(parsed) : SubtractOverflows(parsed[i].name)
           THEN /\ Stop("panicked", "SubtractOverflow")
                /\ UNCHANGED << files, folder_idx, listing >>
           ELSE /\ files' = Collect(files, FilterListing(parsed, input))
                /\ folder_idx' = folder_idx + 1
                /\ listing' = None
                /\ pc' = AfterFolder(folder_idx + 1)
                /\ failure' = failure
  /\ UNCHANGED << input, overflow_checks, calls, index, pending, prior, disk >>

\* generate_index
GenerateIndex ==
  /\ pc = "generate"
  /\ IF SizeParseFails(files)
       THEN Stop("exit1", "ParseInt") /\ index' = index
       ELSE \/ /\ index' = Some(BuildIndex(files, input))
               /\ pc' = "output"
               /\ failure' = failure
            \/ Stop("exit1", "LogGenerate") /\ index' = index
  /\ UNCHANGED << input, overflow_checks, calls, folder_idx, listing, files,
                  pending, prior, disk >>

\* As OutputIndex, with the output file created before the conversion.
OutputIndexCreatesFirst ==
  /\ pc = "output"
  /\ disk' = Some(<<>>)
  /\ LET conv == ConvertToTinfoilFormat(Serialize(Unwrap(index)),
                                        EncryptionFlag(input), input.public_key)
     IN  IF conv.ok
           THEN pending' = conv.bytes /\ pc' = "fs_write" /\ failure' = failure
           ELSE Stop("exit1", "Encryption") /\ pending' = pending
  /\ UNCHANGED << input, overflow_checks, calls, folder_idx, listing, files,
                  index, prior >>

\* output_index up to the call of std::fs::write: the index is serialized and
\* converted; a conversion error returns before the write.
OutputIndex ==
  /\ pc = "output"
  /\ LET conv == ConvertToTinfoilFormat(Serialize(Unwrap(index)),
                                        EncryptionFlag(input), input.public_key)
     IN  IF conv.ok
           THEN pending' = conv.bytes /\ pc' = "fs_write" /\ failure' = failure
           ELSE Stop("exit1", "Encryption") /\ pending' = pending
  /\ UNCHANGED << input, overflow_checks, calls, folder_idx, listing, files,
                  index, prior, disk >>

\* std::fs::write opens the output path, creating or truncating it.
FsWriteOpen ==
  /\ pc = "fs_write"
  /\ \/ /\ disk' = Some(<<>>)
        /\ calls' = Append(calls, <<"fs_write">>)
        /\ pc' = "writing"
        /\ failure' = failure
     \/ /\ Stop("panicked", "WriteFailed")
        /\ UNCHANGED << disk, calls >>
  /\ UNCHANGED << input, overflow_checks, folder_idx, listing, files, index,
                  pending, prior >>

\* write_all: the next block reaches the file.
FsWriteBlock ==
  /\ pc = "writing"
  /\ Len(Unwrap(disk)) < Len(pending)
  /\ disk' = Some(Append(Unwrap(disk), pending[Len(Unwrap(disk)) + 1]))
  /\ UNCHANGED << pc, input, overflow_checks, calls, folder_idx, listing,
                  files, index, pending, prior, failure >>

\* write_all fails part-way (disk full): expect() panics.
FsWriteError ==
  /\ pc = "writing"
  /\ Len(Unwrap(disk)) < Len(pending)
  /\ Stop("panicked", "WriteFailed")
  /\ UNCHANGED << input, overflow_checks, calls, folder_idx, listing, files,
                  index, pending, prior, disk >>

\* The process is killed while std::fs::write runs.
Interrupt ==
  /\ pc = "writing"
  /\ Stop("killed", "Interrupted")
  /\ UNCHANGED << input, overflow_checks, calls, folder_idx, listing, files,
                  index, pending, prior, disk >>

\* std::fs::write returns; output_index logs and returns.
FsWriteDone ==
  /\ pc = "writing"
  /\ Len(Unwrap(disk)) = Len(pending)
  /\ \/ pc' = "share" /\ failure' = failure
     \/ Stop("exit1", "LogOutput")
  /\ UNCHANGED << input, overflow_checks, calls, folder_idx, listing, files,
                  index, pending, prior, disk >>

\* As ShareFile, without the test of is_shared.
ShareFileAlways(file_id, is_shared) == <<(<<"share", file_id>>)>>

\* share_file: a request to the drive unless the file is shared already.
ShareFile(file_id, is_shared) ==
  IF ~is_shared THEN <<(<<"share", file_id>>)>> ELSE <<>>

\* The loop of share_files.
RECURSIVE ShareAll(_)
ShareAll(fs) ==
  IF fs = <<>> THEN <<>>
  ELSE ShareFile(Head(fs).id, Head(fs).shared) \o ShareAll(Tail(fs))

\* if service.input.share_files { service.share_files(files)? }
ShareFiles ==
  /\ pc = "share"
  /\ calls' = IF input.share_files THEN calls \o ShareAll(files) ELSE calls
  /\ pc' = "upload"
  /\ UNCHANGED << input, overflow_checks, folder_idx, listing, files, index,
                  pending, prior, disk, failure >>

\* The upload block of real_main: upload_index (upload_file(..).unwrap(),
\* then a log line), then share_file on the uploaded index and a log line
\* when share_index is set.
UploadIndex ==
  /\ pc = "upload"
  /\ IF input.upload_my_drive \/ IsSome(input.upload_folder_id)
       THEN \/ \E shared \in BOOLEAN :
                 /\ calls' = Append(calls, <<"upload">>)
                              \o (IF input.share_index
                                    THEN ShareFile("index", shared) ELSE <<>>)
                 /\ \/ pc' = "done" /\ failure' = failure
                    \/ input.share_index /\ Stop("exit1", "LogShared")
            \/ /\ calls' = Append(calls, <<"upload">>)
               /\ Stop("exit1", "LogUpload")
            \/ Stop("panicked", "UploadFailed") /\ calls' = calls
       ELSE pc' = "done" /\ calls' = calls /\ failure' = failure
  /\ UNCHANGED << input, overflow_checks, folder_idx, listing, files, index,
                  pending, prior, disk >>

Next ==
  \/ New
  \/ ValidateInput
  \/ TriggerAuth
  \/ GetAllFilesInFolder
  \/ FilterFolder
  \/ GenerateIndex
  \/ OutputIndex
  \/ FsWriteOpen
  \/ FsWriteBlock
  \/ FsWriteError
  \/ Interrupt
  \/ FsWriteDone
  \/ ShareFiles
  \/ UploadIndex

Spec == Init /\ [][Next]_vars

\* A run with the default flags over folder A, under every combination of
\* the metadata flags.
InitManifest ==
  /\ pc = "start"
  /\ input \in { i \in Inputs(AllMeta, {<<"A">>}) :
                   /\ i.credentials_exists /\ ~i.share_files
                   /\ ~i.add_nsw_files_without_title_id /\ ~i.add_non_nsw_files
                   /\ i.public_key = None /\ ~i.share_index
                   /\ i.upload_folder_id = None /\ ~i.upload_my_drive }
  /\ overflow_checks \in BOOLEAN
  /\ calls = <<>>
  /\ folder_idx = 1
  /\ listing = None
  /\ files = <<>>
  /\ index = None
  /\ pending = <<>>
  /\ prior \in {None, Some(OldContainer)}
  /\ disk = prior
  /\ failure = ""

SpecManifest == InitManifest /\ [][Next]_vars

\* ------------------------------------------------------- what the claims use

\* The run is over.
Ended == pc \in {"done", "exit1", "panicked", "killed"}

\* validate_input has returned Ok.
Validated ==
  \/ pc \in {"scan", "list", "filter", "generate", "output", "fs_write",
             "writing", "share", "upload", "done"}
  \/ Ended /\ failure \notin {"CredentialsMissing", "GDriveNew"}

\* scan_folder has returned Ok.
Scanned ==
  \/ pc \in {"generate", "output", "fs_write", "writing", "share", "upload", "done"}
  \/ Ended /\ failure \in {"ParseInt", "LogGenerate", "Encryption",
                           "WriteFailed", "Interrupted", "LogOutput",
                           "UploadFailed", "LogUpload", "LogShared"}

\* The share step of real_main is over.
SharingOver ==
  pc \in {"upload", "done"} \/ failure \in {"UploadFailed", "LogUpload", "LogShared"}

\* Positions in calls of the calls of one kind.
CallsOf(kind) == {i \in 1..Len(calls) : calls[i][1] = kind}

ToLowerChar(c) ==
  CASE c = "A" -> "a" [] c = "B" -> "b" [] c = "C" -> "c" [] c = "D" -> "d"
    [] c = "E" -> "e" [] c = "F" -> "f" [] c = "G" -> "g" [] c = "N" -> "n"
    [] c = "P" -> "p" [] c = "S" -> "s" [] c = "X" -> "x" [] c = "Z" -> "z"
    [] c = "I" -> "i" [] OTHER -> c

ToLower(s) == [i \in 1..Len(s) |-> ToLowerChar(s[i])]

\* The name ends, in any letter case, with a recognized extension.
EndsWithNswExtension(name) ==
  /\ Len(name) >= 4
  /\ ToLower(SubSeq(name, Len(name) - 3, Len(name))) \in NswExtensions

\* The elements of a sequence.
Range(q) == {q[i] : i \in 1..Len(q)}

\* Every file the remote store lists under the folder ids given.
Listed == UNION {Range(RemoteListing(id)) : id \in Range(input.folder_ids)}

\* The ids of the files scan_folder returned.
KeptIds == {files[i].id : i \in 1..Len(files)}

\* ------------------------------------------------------------------ claims

\* C1: with the extension policy not overridden, every file scan_folder
\* returns has a name ending in a recognized extension, whatever the
\* identifier-policy toggle is.
C1_KeptFilesHaveNswExtension ==
  (Scanned /\ ~input.add_non_nsw_files)
    => \A i \in 1..Len(files) : EndsWithNswExtension(files[i].name)

\* C2: with the extension policy not overridden, a name shorter than four
\* characters never panics the scan; the file is rejected and the scan goes on.
C2_ShortNameNeverPanics ==
  /\ failure # "SubtractOverflow"
  /\ ~input.add_non_nsw_files
       => \A i \in 1..Len(files) : Len(files[i].name) >= 4

\* C3: with the extension policy not overridden and the identifier policy
\* satisfied or overridden, a listed file whose name ends with a recognized
\* extension in any letter case is kept, as its lower-case form is.
C3_ExtensionCaseInsensitive ==
  (Scanned /\ ~input.add_non_nsw_files)
    => \A f \in Listed :
         ( /\ EndsWithNswExtension(f.name)
           /\ \/ input.add_nsw_files_without_title_id
              \/ ReIsMatch(PercentEncode(f.name)) )
         => ( f.id \in KeptIds
                <=> KeepFile(ParsedFileInfoNew([f EXCEPT !.name = ToLower(f.name)]),
                             input.add_non_nsw_files,
                             input.add_nsw_files_without_title_id) )

\* The metadata flags of Input and the manifest fields they set.
MetaFields ==
  { <<"success", "success">>, <<"referrer", "referrer">>,
    <<"google_api_key", "googleApiKey">>,
    <<"one_fichier_keys", "oneFichierKeys">>, <<"headers", "headers">>,
    <<"min_version", "version">>, <<"theme_blacklist", "themeBlackList">>,
    <<"theme_whitelist", "themeWhiteList">>, <<"theme_error", "themeError">> }

\* C4: the serialized manifest holds each optional metadata field, with the
\* configured value, exactly when it was configured, and no field that was
\* not supplied.
C4_ExactlySuppliedFields ==
  pending # <<>>
    => LET json == pending[1].doc
       IN  /\ \A p \in MetaFields :
                /\ (p[2] \in DOMAIN json) <=> IsSome(input[p[1]])
                /\ (p[2] \in DOMAIN json) => json[p[2]] = Unwrap(input[p[1]])
           /\ DOMAIN json \subseteq
                {"files"} \cup {p[2] : p \in {q \in MetaFields : IsSome(input[q[1]])}}

\* C5: a run that fails on a listing failure, a malformed size or an
\* encryption key error has not written to the output path: the file is as
\* it was before the run.
C5_NoWriteBeforeFailure ==
  failure \in {"ListingFailed", "ParseInt", "Encryption"}
    => disk = prior /\ CallsOf("fs_write") = {}

\* C5 witness: the run failed on the public key, the last failure before
\* the write, with a container from an earlier run at the output path.
C5_Witness ==
  failure = "Encryption" /\ IsSome(prior) /\ IsSome(index) /\ pc = "exit1"

\* C6: nothing touches the drive client, the network or a file before
\* validate_input has succeeded.
C6_NothingBeforeValidation == calls # <<>> => Validated

\* C7: the output path holds the complete prior content or the complete
\* new container, in every state.
C7_AtomicWrite == disk = prior \/ (pending # <<>> /\ disk = Some(pending))

\* C8: authentication is triggered once, before the first listing call, and
\* not again for any folder; every run that enters scan_folder triggers it.
C8_AuthOnceBeforeListing ==
  /\ Cardinality(CallsOf("trigger_auth")) <= 1
  /\ \A l \in CallsOf("list") : \E a \in CallsOf("trigger_auth") : a < l
  /\ (Validated /\ pc # "scan") => Cardinality(CallsOf("trigger_auth")) = 1

\* C8 witness: a finished run that listed two folders.
C8_Witness ==
  /\ pc = "done"
  /\ Cardinality(CallsOf("list")) >= 2
  /\ Cardinality(CallsOf("trigger_auth")) = 1

\* The files expected of the first n folder ids: each folder's listing with
\* the rejected files removed, one folder after the other.
RECURSIVE ExpectedFiles(_)
ExpectedFiles(n) ==
  IF n = 0 THEN <<>>
  ELSE LET Keep(f) == KeepFile(f, input.add_non_nsw_files,
                               input.add_nsw_files_without_title_id)
       IN  ExpectedFiles(n - 1)
             \o SelectSeq(ParseAll(RemoteListing(input.folder_ids[n])), Keep)

\* C9: the file list is the concatenation, in the order of the folder ids, of
\* each folder's listing without its rejected files; a folder is listed only
\* when the one before is consumed; the manifest has one locator per kept
\* file in that order.
C9_OrderPreserved ==
  /\ files = ExpectedFiles(folder_idx - 1)
  /\ Scanned => folder_idx = Len(input.folder_ids) + 1
  /\ pc = "list" => listing = None
  /\ LET lists == CallsOf("list")
     IN  \A l \in lists :
           calls[l][2] = input.folder_ids[Cardinality({k \in lists : k <= l})]
  /\ IsSome(index)
       => LET entries == Unwrap(Unwrap(index).files)
          IN  /\ Len(entries) = Len(files)
              /\ \A i \in 1..Len(files) :
                   entries[i].url
                     = <<"gdrive:", files[i].id, "#">> \o files[i].name_encoded

\* C9 witness: a finished run over two different folders that kept files of
\* both and rejected some.
C9_Witness ==
  /\ pc = "done"
  /\ Len(input.folder_ids) = 2
  /\ input.folder_ids[1] # input.folder_ids[2]
  /\ \A k \in 1..2 :
       \E f \in Range(RemoteListing(input.folder_ids[k])) : f.id \in KeptIds
  /\ \E f \in Listed : f.id \notin KeptIds

\* The share requests made, in order.
ShareCalls == SelectSeq(calls, LAMBDA c : c[1] = "share")

\* How many share requests name the file id.
SharesOf(id) == Cardinality({i \in CallsOf("share") : calls[i][2] = id})

\* C10 as stated: with share_files, one share request for each file of the
\* manifest that was not shared and none for a shared or rejected file, all
\* after the index is written; without share_files no share request at all.
C10_ShareAsStated ==
  /\ \A s \in CallsOf("share") : \E w \in CallsOf("fs_write") : w < s
  /\ ~input.share_files => CallsOf("share") = {}
  /\ (input.share_files /\ SharingOver)
       => /\ \A i \in 1..Len(files) :
               SharesOf(files[i].id) = IF files[i].shared THEN 0 ELSE 1
          /\ \A f \in Listed : f.id \notin KeptIds => SharesOf(f.id) = 0

\* The share requests share_files owes: one per entry of the file list that
\* is not shared, in order.
RECURSIVE OwedShares(_)
OwedShares(n) ==
  IF n = 0 THEN <<>>
  ELSE OwedShares(n - 1)
         \o (IF files[n].shared THEN <<>> ELSE <<(<<"share", files[n].id>>)>>)

\* C10 amended: with share_files, one share request per manifest entry whose
\* file was not shared, none for a shared or rejected file; without
\* share_files none for a scanned file; the only other share request is for
\* the uploaded index, under share_index; all after the index is written.
C10_ShareAmended ==
  LET fileShares == SelectSeq(ShareCalls, LAMBDA c : c[2] # "index")
      indexShares == SelectSeq(ShareCalls, LAMBDA c : c[2] = "index")
  IN  /\ \A s \in CallsOf("share") :
           /\ \E w \in CallsOf("fs_write") : w < s
           /\ disk = Some(pending)
      /\ fileShares = IF input.share_files /\ SharingOver
                        THEN OwedShares(Len(files)) ELSE <<>>
      /\ IsSome(index) => Len(Unwrap(Unwrap(index).files)) = Len(files)
      /\ Len(indexShares) <= 1
      /\ indexShares # <<>>
           => /\ input.share_index
              /\ input.upload_my_drive \/ IsSome(input.upload_folder_id)
              /\ CallsOf("upload") # {}

\* C10 witness: a finished run with share_files that kept a shared file and
\* an unshared one, rejected another, and made a share request.
C10_Witness ==
  /\ pc = "done"
  /\ input.share_files
  /\ \E i \in 1..Len(files) : files[i].shared
  /\ \E i \in 1..Len(files) : ~files[i].shared
  /\ \E f \in Listed : f.id \notin KeptIds
  /\ CallsOf("share") # {}

====
